---- MODULE Spec2Model ----
(***************************************************************************)
(* Quota-aware key rotation: the TokenUsageTracker (tokenUsageTracker.ts)  *)
(* over a persistent key-value storage, and the per-provider rotation      *)
(* state kept by the settings service.                                     *)
(* The AsyncTaskQueueService (asyncTaskQueueService.ts) is modelled       *)
(* beside it, with its own variables.                                      *)
(*                                                                         *)
(* Time is counted in hours: Date.now() is the variable now, one unit is   *)
(* 60 * 60 * 1000 ms.  Every handler runs to completion at one instant     *)
(* (the single-threaded event loop), so a handler is one action.           *)
(*                                                                         *)
(* JavaScript numbers are tagged records [t, v]: t is "finite", "NaN",     *)
(* "Infinity", "null" (a JSON null read back) or "nonnumber"; v is the     *)
(* integer value of a finite number.  A ratio usage / limit is the pair    *)
(* <<numerator, denominator>>; ratios of the small integers used here are  *)
(* compared by cross-multiplication, which agrees with the correctly       *)
(* rounded IEEE division followed by >=.                                   *)
(***************************************************************************)
EXTENDS Integers, Sequences, FiniteSets, TLC

VARIABLES
    now,             \* Date.now(), in hours
    ticks,           \* number of clock advances so far
    storage,         \* the storage service's value under STORAGE_KEY
    recorded,        \* history: per provider, the recordUsage calls that succeeded
                     \* since its last resetUsage / clearAllUsage
    call,            \* the last operation called, its provider, tokens and key
                     \* arguments, and the count it logged
    ret,             \* what that operation returned
    settingsState,   \* rotation state in memory, per provider
    settingsStorage, \* rotation state as persisted
    tasks,           \* AsyncTaskQueueService._tasks: the Map's values in insertion order
    isProcessing,    \* AsyncTaskQueueService._isProcessing
    inFlight,        \* ids of the tasks whose processor promise has not settled
    timers,          \* pending setTimeout callbacks of processNextTask
    taskStorage      \* the task array stored under 'void.asyncTasks'

queueVars == <<tasks, isProcessing, inFlight, timers, taskStorage>>

vars == <<now, ticks, storage, recorded, call, ret, settingsState, settingsStorage,
          queueVars>>

usageVars == <<now, ticks, storage, recorded>>
rotationVars == <<settingsState, settingsStorage>>

----------------------------------------------------------------------------
(* Bounds of the model *)

MaxTicks == 2
MaxEntries == 2
MaxKeys == 3
MaxTextLen == 6
MaxTasks == 2
EpochStart == 1

Providers == {"openai", "anthropic"}
ClockSteps == {1, 24, 720}
ApiKeyNames == {"key1", "key2"}
Chars == {"a", "b"}

----------------------------------------------------------------------------
(* Program constants, in hours *)

CLEANUP_INTERVAL == 1
oneHourInMs == 1
oneDayInMs == 24
thirtyDaysInMs == 720
PROACTIVE_ROTATION_THRESHOLD == <<4, 5>>

----------------------------------------------------------------------------
(* JavaScript values *)

Num(n) == [t |-> "finite", v |-> n]
NaN == [t |-> "NaN", v |-> 0]
Infinity == [t |-> "Infinity", v |-> 0]
JsonNull == [t |-> "null", v |-> 0]
NonNumber == [t |-> "nonnumber", v |-> 0]

TypeofNumber(x) == x.t \in {"finite", "NaN", "Infinity"}
IsFinite(x) == x.t = "finite"

\* total + entry.tokens
JsAdd(a, b) ==
    IF a.t = "nonnumber" \/ b.t = "nonnumber" THEN NonNumber
    ELSE IF a.t = "NaN" \/ b.t = "NaN" THEN NaN
    ELSE IF a.t = "Infinity" \/ b.t = "Infinity" THEN Infinity
    ELSE Num((IF a.t = "finite" THEN a.v ELSE 0) + (IF b.t = "finite" THEN b.v ELSE 0))

\* usage / limit for a truthy limit
JsDivide(usage, limit) ==
    IF usage.t = "finite" THEN <<usage.v, limit>>
    ELSE IF usage.t = "null" THEN <<0, limit>>
    ELSE IF usage.t = "Infinity" THEN <<1, 0>>
    ELSE <<0, 0>>

ZeroRatio == <<0, 1>>
RatioIsNaN(a) == a[1] = 0 /\ a[2] = 0

\* a > b, the comparison that misses the boundary
RatioGT(a, b) ==
    IF RatioIsNaN(a) THEN FALSE
    ELSE IF a[2] = 0 THEN TRUE
    ELSE a[1] * b[2] > b[1] * a[2]

\* a >= b on ratios; b is a finite ratio
RatioGE(a, b) ==
    IF RatioIsNaN(a) THEN FALSE
    ELSE IF a[2] = 0 THEN TRUE
    ELSE a[1] * b[2] >= b[1] * a[2]

\* Math.max(a, b, c): NaN if any argument is NaN
MathMax3(a, b, c) ==
    IF RatioIsNaN(a) \/ RatioIsNaN(b) \/ RatioIsNaN(c) THEN <<0, 0>>
    ELSE LET ab == IF RatioGE(a, b) THEN a ELSE b
         IN  IF RatioGE(ab, c) THEN ab ELSE c

----------------------------------------------------------------------------
(* Arguments *)

Str(s) == [isString |-> TRUE, name |-> s]
NotAString == [isString |-> FALSE, name |-> ""]

ProviderInputs == {Str(p) : p \in Providers} \cup {Str(""), NotAString}
TokenInputs == {Num(100), Num(400), Num(0 - 5), NaN, Infinity, NonNumber}

NoLimitsObject == <<>>
LimitsGiven(l) == [given |-> TRUE, val |-> l]
LimitsMissing == [given |-> FALSE, val |-> NoLimitsObject]

LimitsChoices ==
    { NoLimitsObject,
      [tokensPerDay |-> 1000, maxTokensTotal |-> 30000],
      [tokensPerHour |-> 500, tokensPerDay |-> 1000],
      [tokensPerHour |-> 1000, tokensPerDay |-> 1000, maxTokensTotal |-> 1000],
      [tokensPerHour |-> 0, tokensPerDay |-> 500],
      [tokensPerDay |-> 1000, proactiveThreshold |-> <<19, 20>>] }

LimitsInputs == {LimitsGiven(l) : l \in LimitsChoices} \cup {LimitsMissing}

\* limits.field used as a condition: present and not 0
Truthy(limits, field) == field \in DOMAIN limits /\ limits[field] # 0

\* an optional field copied into a result
Opt(limits, field) == IF field \in DOMAIN limits THEN <<limits[field]>> ELSE <<>>

----------------------------------------------------------------------------
(* The storage service and the (de)serialisation of the usage data *)

\* the calls of the storage service that can throw
StorageCalls == {"get", "store", "remove"}
NoFaults == {}

\* a stored text: the JSON text of an object (value is the object), the
\* empty string, a text that is not JSON, or the JSON text of a value that
\* is not an object
ObjectText(value) == [form |-> "object", value |-> value]
EmptyString == [form |-> "empty", value |-> <<>>]
InvalidJson == [form |-> "invalid", value |-> <<>>]
NonObjectJson == [form |-> "nonobject", value |-> <<>>]

\* the storage service: the value under STORAGE_KEY, absent or a text, and
\* the calls that throw
NoValue == [present |-> FALSE, text |-> ObjectText(<<>>), faults |-> NoFaults]
Stored(text) == [present |-> TRUE, text |-> text, faults |-> NoFaults]

\* JSON.stringify writes a non-finite number as null
JsonNumber(x) == IF x.t \in {"NaN", "Infinity"} THEN JsonNull ELSE x

StringifyEntry(e) == [timestamp |-> e.timestamp, tokens |-> JsonNumber(e.tokens)]

StringifyKeyData(k) ==
    [f \in DOMAIN k |->
        IF f = "usage" THEN [i \in DOMAIN k.usage |-> StringifyEntry(k.usage[i])] ELSE k[f]]

JSONStringify(data) ==
    [p \in DOMAIN data |-> [i \in DOMAIN data[p] |-> StringifyKeyData(data[p][i])]]

\* JSON.parse builds the object the text denotes
JSONParse(text) == text.value

EmptyData == <<>>

\* a load that answers from the value although get throws
LoadUsageDataCached(st) ==
    IF ~st.present THEN EmptyData
    ELSE IF st.text.form # "object" THEN EmptyData
    ELSE JSONParse(st.text)

\* get throws, the text is empty, JSON.parse throws or the parsed value is
\* no object: the empty object
LoadUsageData(st) ==
    IF "get" \in st.faults THEN EmptyData
    ELSE IF ~st.present THEN EmptyData
    ELSE IF st.text.form # "object" THEN EmptyData
    ELSE JSONParse(st.text)

\* store throws: the error is logged and nothing is written
SaveUsageData(st, data) ==
    IF "store" \in st.faults THEN st
    ELSE [Stored(ObjectText(JSONStringify(data))) EXCEPT !.faults = st.faults]

\* data[providerKey] && data[providerKey]['0']
HasLedger(data, p) == p \in DOMAIN data /\ "0" \in DOMAIN data[p]

\* keyData.usage is there; without it keyData.usage.length, .filter and
\* .push raise a TypeError
HasUsage(k) == "usage" \in DOMAIN k

\* one ledger shared by all providers: k is written under every provider
WithKeyDataShared(data, p, k) ==
    [q \in Providers |-> [i \in {"0"} |-> k]]

\* data with data[p]['0'] set to k, data[p] created when missing
WithKeyData(data, p, k) ==
    [q \in DOMAIN data \cup {p} |->
        IF q = p
        THEN [i \in (IF p \in DOMAIN data THEN DOMAIN data[p] ELSE {}) \cup {"0"} |->
                 IF i = "0" THEN k ELSE data[p][i]]
        ELSE data[q]]

----------------------------------------------------------------------------
(* TokenUsageTracker: pure parts *)

RECURSIVE SumTokens(_)
SumTokens(usage) ==
    IF Len(usage) = 0 THEN Num(0)
    ELSE JsAdd(SumTokens(SubSeq(usage, 1, Len(usage) - 1)), usage[Len(usage)].tokens)

InWindow(entry, currentTime, windowMs) == entry.timestamp >= currentTime - windowMs

calculateUsageInWindow(usage, currentTime, windowMs) ==
    SumTokens(SelectSeq(usage, LAMBDA entry : InWindow(entry, currentTime, windowMs)))

\* usage.filter(entry => (now - entry.timestamp) < windowMs)
YoungerThan(usage, t, windowMs) ==
    SelectSeq(usage, LAMBDA entry : (t - entry.timestamp) < windowMs)

NewKeyData(t) ==
    [usage |-> <<>>, lastDailyReset |-> t, lastMonthlyReset |-> t, lastHourlyReset |-> t]

initializeResetTimestamps(k, t) ==
    [f \in DOMAIN k \cup {"lastDailyReset", "lastMonthlyReset", "lastHourlyReset"} |->
        IF f \in {"lastDailyReset", "lastMonthlyReset", "lastHourlyReset"}
        THEN (IF Truthy(k, f) THEN k[f] ELSE t)
        ELSE k[f]]

\* the window test with > for >=
ResetDueLate(limits, limitField, k, resetField, t, windowMs) ==
    /\ Truthy(limits, limitField)
    /\ Truthy(k, resetField)
    /\ t - k[resetField] > windowMs

\* one window of autoResetCounters
ResetDue(limits, limitField, k, resetField, t, windowMs) ==
    /\ Truthy(limits, limitField)
    /\ Truthy(k, resetField)
    /\ t - k[resetField] >= windowMs

ResetWindow(k, resetField, t, windowMs) ==
    [f \in DOMAIN k |->
        IF f = "usage" THEN YoungerThan(k.usage, t, windowMs)
        ELSE IF f = resetField THEN t
        ELSE k[f]]

\* the storage after autoResetCounters(providerName, limits)
autoResetCounters(st, p, limits, t) ==
    LET data == LoadUsageData(st) IN
    IF ~HasLedger(data, p) THEN st
    ELSE IF ~HasUsage(data[p]["0"]) THEN st
    ELSE
      LET k0 == data[p]["0"]
          dailyDue == ResetDue(limits, "tokensPerDay", k0, "lastDailyReset", t, oneDayInMs)
          k1 == IF dailyDue THEN ResetWindow(k0, "lastDailyReset", t, oneDayInMs) ELSE k0
          monthlyDue == ResetDue(limits, "maxTokensTotal", k1, "lastMonthlyReset", t, thirtyDaysInMs)
          k2 == IF monthlyDue THEN ResetWindow(k1, "lastMonthlyReset", t, thirtyDaysInMs) ELSE k1
          hourlyDue == ResetDue(limits, "tokensPerHour", k2, "lastHourlyReset", t, oneHourInMs)
          k3 == IF hourlyDue THEN ResetWindow(k2, "lastHourlyReset", t, oneHourInMs) ELSE k2
          hasChanges == dailyDue \/ monthlyDue \/ hourlyDue
      IN  IF hasChanges THEN SaveUsageData(st, WithKeyData(data, p, k3)) ELSE st

\* autoResetCounters raises: a reset is due on a record without usage
autoResetRaises(st, p, limits, t) ==
    LET data == LoadUsageData(st) IN
    /\ HasLedger(data, p)
    /\ ~HasUsage(data[p]["0"])
    /\ \/ ResetDue(limits, "tokensPerDay", data[p]["0"], "lastDailyReset", t, oneDayInMs)
       \/ ResetDue(limits, "maxTokensTotal", data[p]["0"], "lastMonthlyReset", t, thirtyDaysInMs)
       \/ ResetDue(limits, "tokensPerHour", data[p]["0"], "lastHourlyReset", t, oneHourInMs)

ValidProviderName(pIn) == pIn.isString /\ pIn.name # ""
\* the validation without its isFinite test
ValidTokensUsedNoFiniteTest(tIn) == TypeofNumber(tIn) /\ ~(tIn.t = "finite" /\ tIn.v < 0)

ValidTokensUsed(tIn) == TypeofNumber(tIn) /\ IsFinite(tIn) /\ tIn.v >= 0

\* an absent limit read as a saturated window
UtilizationSaturated(limits, field, usage) ==
    IF Truthy(limits, field) THEN JsDivide(usage, limits[field]) ELSE <<1, 1>>

Utilization(limits, field, usage) ==
    IF Truthy(limits, field) THEN JsDivide(usage, limits[field]) ELSE ZeroRatio

----------------------------------------------------------------------------
(* TokenUsageTracker: the public operations, as functions of the storage  *)
(* value st and the time t.  Each gives the storage value it leaves and,   *)
(* for a query, the value it returns.                                      *)

RetUndefined == [kind |-> "undefined", bool |-> FALSE, stats |-> <<>>]
RetNull == [kind |-> "null", bool |-> FALSE, stats |-> <<>>]
RetBool(b) == [kind |-> "boolean", bool |-> b, stats |-> <<>>]
RetStats(s) == [kind |-> "stats", bool |-> FALSE, stats |-> s]
\* the call did not return: an exception left it
RetThrows == [kind |-> "throws", bool |-> FALSE, stats |-> <<>>]

Outcome(st, r) == [storage |-> st, ret |-> r]

\* the entry put at the front of the array
Unshift(usage, entry) == <<entry>> \o usage

\* keyData.usage.push(entry)
Push(usage, entry) == Append(usage, entry)

\* recordUsage without the validation of its arguments
recordUsageUnvalidated(st, pIn, tIn, t) ==
    LET data == LoadUsageData(st)
        p == pIn.name
        k0 == IF HasLedger(data, p) THEN data[p]["0"] ELSE NewKeyData(t)
        k1 == initializeResetTimestamps(k0, t)
        k2 == [k1 EXCEPT !.usage = Push(@, [timestamp |-> t, tokens |-> tIn])]
    IN  SaveUsageData(st, WithKeyData(data, p, k2))

recordUsage(st, pIn, tIn, t) ==
    IF ~ValidProviderName(pIn) THEN st
    ELSE IF ~ValidTokensUsed(tIn) THEN st
    ELSE
      LET data == LoadUsageData(st)
          p == pIn.name
          k0 == IF HasLedger(data, p) THEN data[p]["0"] ELSE NewKeyData(t)
          k1 == initializeResetTimestamps(k0, t)
          k2 == [k1 EXCEPT !.usage = Push(@, [timestamp |-> t, tokens |-> tIn])]
      IN  IF ~HasUsage(k1) THEN st
          ELSE SaveUsageData(st, WithKeyData(data, p, k2))

\* recordUsage raises: keyData.usage.push on a record without usage
recordUsageRaises(st, pIn, tIn) ==
    /\ ValidProviderName(pIn)
    /\ ValidTokensUsed(tIn)
    /\ HasLedger(LoadUsageData(st), pIn.name)
    /\ ~HasUsage(LoadUsageData(st)[pIn.name]["0"])

shouldRotateProactively(st, pIn, lIn, t) ==
    IF ~ValidProviderName(pIn) THEN Outcome(st, RetBool(FALSE))
    ELSE IF ~lIn.given THEN Outcome(st, RetBool(FALSE))
    ELSE
      LET limits == lIn.val
          p == pIn.name
          st1 == autoResetCounters(st, p, limits, t)
          data == LoadUsageData(st1)
      IN  IF autoResetRaises(st, p, limits, t) THEN Outcome(st, RetThrows)
          ELSE IF ~HasLedger(data, p) THEN Outcome(st1, RetBool(FALSE))
          ELSE IF ~HasUsage(data[p]["0"]) THEN Outcome(st1, RetThrows)
          ELSE
            LET usage == data[p]["0"].usage
                hourlyUsage == calculateUsageInWindow(usage, t, oneHourInMs)
                dailyUsage == calculateUsageInWindow(usage, t, oneDayInMs)
                monthlyUsage == calculateUsageInWindow(usage, t, thirtyDaysInMs)
                threshold == PROACTIVE_ROTATION_THRESHOLD
                hourlyThreshold == Utilization(limits, "tokensPerHour", hourlyUsage)
                dailyThreshold == Utilization(limits, "tokensPerDay", dailyUsage)
                monthlyThreshold == Utilization(limits, "maxTokensTotal", monthlyUsage)
                maxThreshold == MathMax3(hourlyThreshold, dailyThreshold, monthlyThreshold)
            IN  Outcome(st1, RetBool(RatioGE(maxThreshold, threshold)))

getUsageStats(st, pIn, lIn, t) ==
    IF ~ValidProviderName(pIn) THEN Outcome(st, RetNull)
    ELSE
      LET limits == IF lIn.given THEN lIn.val ELSE NoLimitsObject
          p == pIn.name
          st1 == autoResetCounters(st, p, limits, t)
          data == LoadUsageData(st1)
      IN  IF autoResetRaises(st, p, limits, t) THEN Outcome(st, RetThrows)
          ELSE IF ~HasLedger(data, p) THEN Outcome(st1, RetNull)
          ELSE IF ~HasUsage(data[p]["0"]) THEN Outcome(st1, RetThrows)
          ELSE
            LET usage == data[p]["0"].usage
                hourlyUsage == calculateUsageInWindow(usage, t, oneHourInMs)
                dailyUsage == calculateUsageInWindow(usage, t, oneDayInMs)
                monthlyUsage == calculateUsageInWindow(usage, t, thirtyDaysInMs)
            IN  Outcome(st1, RetStats(
                  [hourlyUsage |-> hourlyUsage,
                   dailyUsage |-> dailyUsage,
                   monthlyUsage |-> monthlyUsage,
                   hourlyLimit |-> Opt(limits, "tokensPerHour"),
                   dailyLimit |-> Opt(limits, "tokensPerDay"),
                   monthlyLimit |-> Opt(limits, "maxTokensTotal"),
                   hourlyUtilization |-> Utilization(limits, "tokensPerHour", hourlyUsage),
                   dailyUtilization |-> Utilization(limits, "tokensPerDay", dailyUsage),
                   monthlyUtilization |-> Utilization(limits, "maxTokensTotal", monthlyUsage)]))

\* a reset that empties the ledger of every provider
resetUsageEveryProvider(st, pIn, t) ==
    IF ~ValidProviderName(pIn) THEN st
    ELSE
      LET data == LoadUsageData(st)
      IN  IF HasLedger(data, pIn.name)
          THEN SaveUsageData(st, [q \in DOMAIN data |-> [i \in {"0"} |-> NewKeyData(t)]])
          ELSE st

\* a reset that creates the ledger it does not find
resetUsageCreating(st, pIn, t) ==
    IF ~ValidProviderName(pIn) THEN st
    ELSE SaveUsageData(st, WithKeyData(LoadUsageData(st), pIn.name, NewKeyData(t)))

resetUsage(st, pIn, t) ==
    IF ~ValidProviderName(pIn) THEN st
    ELSE
      LET data == LoadUsageData(st)
          p == pIn.name
      IN  IF HasLedger(data, p)
          THEN SaveUsageData(st, WithKeyData(data, p, NewKeyData(t)))
          ELSE st

\* every ledger emptied in place instead of the key being removed
clearAllUsageInPlace(st) ==
    LET data == LoadUsageData(st)
    IN  SaveUsageData(st, [p \in DOMAIN data |-> [i \in DOMAIN data[p] |-> NewKeyData(0)]])

\* storageService.remove(STORAGE_KEY); remove is called outside any try
clearAllUsage(st) ==
    IF "remove" \in st.faults THEN st
    ELSE [NoValue EXCEPT !.faults = st.faults]

clearAllUsageRaises(st) == "remove" \in st.faults

\* the timer callback raises: keyData.usage.length on a record without usage
cleanupRaises(st) ==
    LET data == LoadUsageData(st)
    IN  \E p \in DOMAIN data : \E i \in DOMAIN data[p] : ~HasUsage(data[p][i])

\* the filter keeping an entry of exactly 30 days
cleanupFilteredInclusive(data, t) ==
    [p \in DOMAIN data |->
        [i \in DOMAIN data[p] |->
            [f \in DOMAIN data[p][i] |->
                IF f = "usage"
                THEN SelectSeq(data[p][i].usage,
                               LAMBDA entry : (t - entry.timestamp) <= thirtyDaysInMs)
                ELSE data[p][i][f]]]]

\* data after the loops of cleanupExpiredData: every usage array filtered
cleanupFiltered(data, t) ==
    [p \in DOMAIN data |->
        [i \in DOMAIN data[p] |->
            [f \in DOMAIN data[p][i] |->
                IF f = "usage"
                THEN YoungerThan(data[p][i].usage, t, thirtyDaysInMs)
                ELSE data[p][i][f]]]]

\* hasChanges set on every pass
cleanupHasChangesAlways(data, t) == TRUE

\* hasChanges: some filtered array is shorter than the original
cleanupHasChanges(data, t) ==
    \E p \in DOMAIN data : \E i \in DOMAIN data[p] :
        Len(cleanupFiltered(data, t)[p][i].usage) # Len(data[p][i].usage)

\* a sweep that deletes the record of a provider left without entries
cleanupExpiredDataPruning(st, t) ==
    IF cleanupRaises(st) THEN st ELSE
    LET data == LoadUsageData(st)
        filtered == cleanupFiltered(data, t)
        kept == {p \in DOMAIN filtered : Len(filtered[p]["0"].usage) > 0}
    IN  IF cleanupHasChanges(data, t)
        THEN SaveUsageData(st, [p \in kept |-> filtered[p]])
        ELSE st

cleanupExpiredData(st, t) ==
    IF cleanupRaises(st) THEN st ELSE
    LET data == LoadUsageData(st)
    IN  IF cleanupHasChanges(data, t) THEN SaveUsageData(st, cleanupFiltered(data, t)) ELSE st

\* Math.floor(n / d)
MathFloorDiv(n, d) == n \div d

\* Math.ceil(n / d) for n >= 0, d > 0
MathCeilDiv(n, d) == (n \div d) + (IF n % d = 0 THEN 0 ELSE 1)

\* the text argument of estimateTokens: a string of UTF-16 units, or a
\* value that is no string
Text(chars) == [isString |-> TRUE, chars |-> chars]
NotAText == [isString |-> FALSE, chars |-> <<>>]

\* an estimate that rounds down
estimateTokensFloor(text) ==
    IF ~text.isString THEN 0
    ELSE IF Len(text.chars) = 0 THEN 0
    ELSE MathFloorDiv(Len(text.chars), 4)

estimateTokens(text) ==
    IF ~text.isString THEN 0
    ELSE IF Len(text.chars) = 0 THEN 0
    ELSE MathCeilDiv(Len(text.chars), 4)

----------------------------------------------------------------------------
(* The rotation controller of the settings service *)

NoRotationState == [apiKeys |-> <<>>, currentKeyIndex |-> 0]

\* the rotation store: one record per provider
SerializeRotation(state) ==
    [p \in DOMAIN state |->
        [apiKeys |-> state[p].apiKeys, currentKeyIndex |-> state[p].currentKeyIndex]]

DeserializeRotation(stored) ==
    [p \in Providers |-> IF p \in DOMAIN stored THEN stored[p] ELSE NoRotationState]

\* the added key made the current key
addKeySelecting(state, p, key) ==
    [state EXCEPT ![p].apiKeys = Append(@, key), ![p].currentKeyIndex = Len(state[p].apiKeys)]

addKey(state, p, key) ==
    [state EXCEPT ![p].apiKeys = Append(@, key)]

\* the bound test off by one
CanAdvanceOffByOne(state, p) == state[p].currentKeyIndex + 1 <= Len(state[p].apiKeys)

CanAdvance(state, p) == state[p].currentKeyIndex + 1 < Len(state[p].apiKeys)

\* rotation that wraps around to the first key
advanceWrapping(state, p) ==
    IF CanAdvance(state, p)
    THEN [state EXCEPT ![p].currentKeyIndex = @ + 1]
    ELSE [state EXCEPT ![p].currentKeyIndex = 0]

advance(state, p) ==
    IF CanAdvance(state, p)
    THEN [state EXCEPT ![p].currentKeyIndex = @ + 1]
    ELSE state

\* currentKey(provider): the active key, if any
currentKey(state, p) ==
    IF Len(state[p].apiKeys) = 0 THEN <<>>
    ELSE <<state[p].apiKeys[state[p].currentKeyIndex + 1]>>

----------------------------------------------------------------------------
(* The state machine *)

Call(op, pIn, tIn, key, logged) ==
    [op |-> op, provider |-> pIn, tokens |-> tIn, key |-> key, logged |-> logged]

NoArgs(op) == Call(op, NotAString, NonNumber, "", 0)

EntryCount(st, p) ==
    LET data == LoadUsageData(st)
    IN  IF HasLedger(data, p) /\ HasUsage(data[p]["0"]) THEN Len(data[p]["0"].usage) ELSE 0

RECURSIVE SumOver(_, _)
SumOver(f, S) ==
    IF S = {} THEN 0
    ELSE LET x == CHOOSE y \in S : TRUE IN f[x] + SumOver(f, S \ {x})

\* all the entries in the store
TotalEntries(st) ==
    LET data == LoadUsageData(st)
    IN  SumOver([p \in DOMAIN data |-> EntryCount(st, p)], DOMAIN data)

TotalRecorded == SumOver([p \in Providers |-> Len(recorded[p])], Providers)

NothingRecorded == [p \in Providers |-> <<>>]

\* the task queue service constructed over an empty storage
QueueInit ==
    /\ tasks = <<>>
    /\ isProcessing = FALSE
    /\ inFlight = {}
    /\ timers = 0
    /\ taskStorage = <<>>

Init ==
    /\ now = EpochStart
    /\ ticks = 0
    /\ storage = NoValue
    /\ recorded = NothingRecorded
    /\ call = NoArgs("construct")
    /\ ret = RetUndefined
    /\ settingsState = [p \in Providers |-> NoRotationState]
    /\ settingsStorage = SerializeRotation([p \in Providers |-> NoRotationState])
    /\ QueueInit

\* the wall clock advances by d hours
Tick(d) ==
    /\ ticks < MaxTicks
    /\ now' = now + d
    /\ ticks' = ticks + 1
    /\ call' = NoArgs("tick")
    /\ ret' = RetUndefined
    /\ UNCHANGED <<storage, recorded, settingsState, settingsStorage>>
    /\ UNCHANGED queueVars

RecordUsage(pIn, tIn) ==
    LET valid == ValidProviderName(pIn) /\ ValidTokensUsed(tIn) IN
    /\ valid => TotalRecorded < MaxEntries /\ TotalEntries(storage) < MaxEntries
    /\ storage' = recordUsage(storage, pIn, tIn, now)
    /\ recorded' = IF valid /\ ~recordUsageRaises(storage, pIn, tIn)
                   THEN [recorded EXCEPT ![pIn.name] = Append(@, [timestamp |-> now, tokens |-> tIn])]
                   ELSE recorded
    /\ call' = Call("recordUsage", pIn, tIn, "",
                    IF valid THEN EntryCount(storage', pIn.name) ELSE 0)
    /\ ret' = IF recordUsageRaises(storage, pIn, tIn) THEN RetThrows ELSE RetUndefined
    /\ UNCHANGED <<now, ticks, settingsState, settingsStorage>>
    /\ UNCHANGED queueVars

ShouldRotateProactively(pIn, lIn) ==
    LET out == shouldRotateProactively(storage, pIn, lIn, now) IN
    /\ storage' = out.storage
    /\ ret' = out.ret
    /\ call' = Call("shouldRotateProactively", pIn, NonNumber, "", 0)
    /\ UNCHANGED <<now, ticks, recorded, settingsState, settingsStorage>>
    /\ UNCHANGED queueVars

GetUsageStats(pIn, lIn) ==
    LET out == getUsageStats(storage, pIn, lIn, now) IN
    /\ storage' = out.storage
    /\ ret' = out.ret
    /\ call' = Call("getUsageStats", pIn, NonNumber, "", 0)
    /\ UNCHANGED <<now, ticks, recorded, settingsState, settingsStorage>>
    /\ UNCHANGED queueVars

ResetUsage(pIn) ==
    /\ storage' = resetUsage(storage, pIn, now)
    /\ recorded' = IF ValidProviderName(pIn) THEN [recorded EXCEPT ![pIn.name] = <<>>]
                   ELSE recorded
    /\ call' = Call("resetUsage", pIn, NonNumber, "", 0)
    /\ ret' = RetUndefined
    /\ UNCHANGED <<now, ticks, settingsState, settingsStorage>>
    /\ UNCHANGED queueVars

\* logs entriesCount, the number of providers that had data
ClearAllUsage ==
    /\ storage' = clearAllUsage(storage)
    /\ recorded' = NothingRecorded
    /\ call' = Call("clearAllUsage", NotAString, NonNumber, "",
                    Cardinality(DOMAIN LoadUsageData(storage)))
    /\ ret' = IF clearAllUsageRaises(storage) THEN RetThrows ELSE RetUndefined
    /\ UNCHANGED <<now, ticks, settingsState, settingsStorage>>
    /\ UNCHANGED queueVars

\* the setInterval callback set up by startCleanupTimer, of any live instance:
\* instances are constructed at any time, so a timer can be due at any
\* instant at least CLEANUP_INTERVAL after the first construction.
\* logs removedCount.
CleanupTimer ==
    /\ now >= EpochStart + CLEANUP_INTERVAL
    /\ storage' = cleanupExpiredData(storage, now)
    /\ call' = Call("cleanupExpiredData", NotAString, NonNumber, "",
                    TotalEntries(storage) - TotalEntries(storage'))
    /\ ret' = IF cleanupRaises(storage) THEN RetThrows ELSE RetUndefined
    /\ UNCHANGED <<now, ticks, recorded, settingsState, settingsStorage>>
    /\ UNCHANGED queueVars

\* a new service instance is constructed over the same storage: the tracker
\* keeps no state of its own, the settings service reads the rotation store
Restart ==
    /\ call.op # "construct"
    /\ settingsState' = DeserializeRotation(settingsStorage)
    /\ call' = NoArgs("construct")
    /\ ret' = RetUndefined
    /\ UNCHANGED <<now, ticks, storage, recorded, settingsStorage>>
    /\ UNCHANGED queueVars

RetNumber(n) == [kind |-> "number", bool |-> FALSE, stats |-> <<>>, number |-> n]

EstimateTokens(text) ==
    /\ call' = [op |-> "estimateTokens", provider |-> NotAString, tokens |-> NonNumber,
                key |-> "", logged |-> 0, text |-> text]
    /\ ret' = RetNumber(estimateTokens(text))
    /\ UNCHANGED <<now, ticks, storage, recorded, settingsState, settingsStorage>>
    /\ UNCHANGED queueVars

\* the storage service starts or stops throwing on the calls in faults
StorageFaults(faults) ==
    /\ faults # storage.faults
    /\ storage' = [storage EXCEPT !.faults = faults]
    /\ call' = NoArgs("storageFaults")
    /\ ret' = RetUndefined
    /\ UNCHANGED <<now, ticks, recorded, settingsState, settingsStorage>>
    /\ UNCHANGED queueVars

AddKey(p, key) ==
    /\ Len(settingsState[p].apiKeys) < MaxKeys
    /\ settingsState' = addKey(settingsState, p, key)
    /\ settingsStorage' = SerializeRotation(settingsState')
    /\ call' = Call("addKey", Str(p), NonNumber, key, 0)
    /\ ret' = RetUndefined
    /\ UNCHANGED usageVars
    /\ UNCHANGED queueVars

\* a rotation that starts the new key on an empty ledger
RotateToNextKeyFreshLedger(p) ==
    /\ settingsState' = advance(settingsState, p)
    /\ settingsStorage' = SerializeRotation(settingsState')
    /\ call' = Call("rotateToNextKey", Str(p), NonNumber, "", 0)
    /\ ret' = RetBool(CanAdvance(settingsState, p))
    /\ storage' = IF CanAdvance(settingsState, p) THEN resetUsage(storage, Str(p), now)
                  ELSE storage
    /\ UNCHANGED <<now, ticks, recorded>>
    /\ UNCHANGED queueVars

RotateToNextKey(p) ==
    /\ settingsState' = advance(settingsState, p)
    /\ settingsStorage' = SerializeRotation(settingsState')
    /\ call' = Call("rotateToNextKey", Str(p), NonNumber, "", 0)
    /\ ret' = RetBool(CanAdvance(settingsState, p))
    /\ UNCHANGED usageVars
    /\ UNCHANGED queueVars

----------------------------------------------------------------------------
(* AsyncTaskQueueService (asyncTaskQueueService.ts): tasks are records     *)
(* [id, status, priority, createdAt]; the processor passed to              *)
(* processNextTask settles at any later instant                            *)

Priorities == {"high", "medium", "low"}
Terminal == {"cancelled", "completed", "failed"}

\* priorityMap = { high: 3, medium: 2, low: 1 }
priorityMap(priority) ==
    IF priority = "high" THEN 3 ELSE IF priority = "medium" THEN 2 ELSE 1

\* the stable Array.sort of seq: before[i][j] says that the comparator puts
\* seq[i] before seq[j]; elements that neither precedes keep their order
StableSort(seq, before) ==
    LET place(i) ==
            1 + Cardinality({j \in DOMAIN seq :
                                \/ before[j][i]
                                \/ ~before[i][j] /\ j < i})
    IN  [k \in DOMAIN seq |-> seq[CHOOSE i \in DOMAIN seq : place(i) = k]]

\* the comparator of getPendingTasks: high priority first, then oldest first
PendingBefore(a, b) ==
    \/ priorityMap(a.priority) > priorityMap(b.priority)
    \/ priorityMap(a.priority) = priorityMap(b.priority) /\ a.createdAt < b.createdAt

getPendingTasks(ts) ==
    LET pending == SelectSeq(ts, LAMBDA t : t.status = "pending")
    IN  StableSort(pending,
                   [i \in DOMAIN pending |->
                       [j \in DOMAIN pending |-> PendingBefore(pending[i], pending[j])]])

\* the comparator of _saveTasks: newest first
NewestBefore(a, b) == a.createdAt > b.createdAt

Active(t) == t.status \in {"pending", "processing"}

\* _saveTasks: the active tasks, then the 100 newest of the others
saveTasks(ts) ==
    LET active == SelectSeq(ts, Active)
        done == SelectSeq(ts, LAMBDA t : ~Active(t))
        sorted == StableSort(done,
                             [i \in DOMAIN done |->
                                 [j \in DOMAIN done |-> NewestBefore(done[i], done[j])]])
        inactive == SubSeq(sorted, 1, IF Len(sorted) < 100 THEN Len(sorted) ELSE 100)
    IN  active \o inactive

\* the index in ts of the task with this id, 0 if there is none
IndexOf(ts, id) ==
    IF \E i \in DOMAIN ts : ts[i].id = id
    THEN CHOOSE i \in DOMAIN ts : ts[i].id = id
    ELSE 0

SetStatus(ts, id, status) == [ts EXCEPT ![IndexOf(ts, id)].status = status]

QueueCall(op, taskId, logged) ==
    [op |-> op, provider |-> NotAString, tokens |-> NonNumber, key |-> "",
     logged |-> logged, taskId |-> taskId]

trackerVars == <<storage, recorded, settingsState, settingsStorage>>

\* queueTask(title, description, type, payload, priority)
QueueTask(priority) ==
    /\ Len(tasks) < MaxTasks
    /\ tasks' = Append(tasks, [id |-> Len(tasks) + 1, status |-> "pending",
                               priority |-> priority, createdAt |-> now])
    /\ taskStorage' = saveTasks(tasks')
    /\ call' = QueueCall("queueTask", Len(tasks) + 1, 1)
    /\ ret' = RetUndefined
    /\ UNCHANGED <<now, ticks, isProcessing, inFlight, timers>>
    /\ UNCHANGED trackerVars

\* cancelTask(taskId)
CancelTask(taskId) ==
    LET i == IndexOf(tasks, taskId)
        cancels == i # 0 /\ tasks[i].status \in {"pending", "processing"}
    IN  /\ tasks' = IF cancels THEN SetStatus(tasks, taskId, "cancelled") ELSE tasks
        /\ taskStorage' = IF cancels THEN saveTasks(tasks') ELSE taskStorage
        /\ call' = QueueCall("cancelTask", taskId, IF cancels THEN 1 ELSE 0)
        /\ ret' = RetUndefined
        /\ UNCHANGED <<now, ticks, isProcessing, inFlight, timers>>
        /\ UNCHANGED trackerVars

\* processNextTask up to its await without the test of _isProcessing
processNextTaskUnguarded(caller) ==
    LET pendingTasks == getPendingTasks(tasks) IN
    IF pendingTasks = <<>>
    THEN /\ call' = QueueCall(caller, 0, 0)
         /\ UNCHANGED <<now, tasks, taskStorage, isProcessing, inFlight>>
    ELSE /\ tasks' = SetStatus(tasks, pendingTasks[1].id, "processing")
         /\ taskStorage' = saveTasks(tasks')
         /\ isProcessing' = TRUE
         /\ inFlight' = inFlight \cup {pendingTasks[1].id}
         /\ call' = QueueCall(caller, pendingTasks[1].id, 1)
         /\ UNCHANGED now

\* processNextTask(processor) up to its await: returns at once when a
\* processor is awaited or nothing is pending, else starts pendingTasks[0]
processNextTask(caller) ==
    LET pendingTasks == getPendingTasks(tasks) IN
    IF isProcessing \/ pendingTasks = <<>>
    THEN /\ call' = QueueCall(caller, 0, 0)
         /\ UNCHANGED <<now, tasks, taskStorage, isProcessing, inFlight>>
    ELSE /\ tasks' = SetStatus(tasks, pendingTasks[1].id, "processing")
         /\ taskStorage' = saveTasks(tasks')
         /\ isProcessing' = TRUE
         /\ inFlight' = inFlight \cup {pendingTasks[1].id}
         /\ call' = QueueCall(caller, pendingTasks[1].id, 1)
         /\ UNCHANGED now

\* a caller invokes processNextTask(processor)
ProcessNextTask ==
    /\ processNextTask("processNextTask")
    /\ ret' = RetUndefined
    /\ UNCHANGED <<ticks, timers>>
    /\ UNCHANGED trackerVars

\* the setTimeout callback of the finally block runs processNextTask
TimerFires ==
    /\ timers > 0
    /\ timers' = timers - 1
    /\ processNextTask("setTimeout")
    /\ ret' = RetUndefined
    /\ UNCHANGED ticks
    /\ UNCHANGED trackerVars

\* the awaited processor settles and processNextTask resumes: the status
\* becomes completed or failed, then the finally block
ProcessorSettles(taskId, status) ==
    /\ taskId \in inFlight
    /\ tasks' = SetStatus(tasks, taskId, status)
    /\ taskStorage' = saveTasks(tasks')
    /\ inFlight' = inFlight \ {taskId}
    /\ isProcessing' = FALSE
    /\ timers' = IF getPendingTasks(tasks') # <<>> THEN timers + 1 ELSE timers
    /\ call' = QueueCall(IF status = "completed" THEN "processorResolved"
                         ELSE "processorRejected", taskId, 1)
    /\ ret' = RetUndefined
    /\ UNCHANGED <<now, ticks>>
    /\ UNCHANGED trackerVars

\* a new service instance over the same storage: _loadTasks; the processors
\* and timers of the instance before are gone with it
QueueRestart ==
    /\ call.op # "constructQueue"
    /\ tasks' = taskStorage
    /\ isProcessing' = FALSE
    /\ inFlight' = {}
    /\ timers' = 0
    /\ call' = QueueCall("constructQueue", 0, 0)
    /\ ret' = RetUndefined
    /\ UNCHANGED <<now, ticks, taskStorage>>
    /\ UNCHANGED trackerVars

----------------------------------------------------------------------------
(* Specifications *)

ValidProviderInputs == {Str(p) : p \in Providers}
ValidTokenInputs == {Num(100), Num(400)}

\* Spec: one provider, every limits object, every clock step
MainProviderInputs == {Str("openai")}

Next ==
    \/ \E d \in ClockSteps : Tick(d)
    \/ \E pIn \in MainProviderInputs, tIn \in ValidTokenInputs : RecordUsage(pIn, tIn)
    \/ \E pIn \in MainProviderInputs, lIn \in LimitsInputs : ShouldRotateProactively(pIn, lIn)
    \/ \E pIn \in MainProviderInputs, lIn \in LimitsInputs : GetUsageStats(pIn, lIn)
    \/ \E pIn \in MainProviderInputs : ResetUsage(pIn)
    \/ ClearAllUsage
    \/ CleanupTimer
    \/ Restart

Spec == Init /\ [][Next]_vars

\* SpecProviders: two providers recording and queried, two limits objects,
\* clock steps of a day, the whole store cleared
FewLimitsInputs ==
    { LimitsGiven([tokensPerDay |-> 1000, maxTokensTotal |-> 30000]),
      LimitsGiven([tokensPerHour |-> 500, tokensPerDay |-> 1000]) }

NextProviders ==
    \/ Tick(oneDayInMs)
    \/ \E pIn \in ValidProviderInputs, tIn \in ValidTokenInputs : RecordUsage(pIn, tIn)
    \/ \E pIn \in ValidProviderInputs, lIn \in FewLimitsInputs : ShouldRotateProactively(pIn, lIn)
    \/ \E pIn \in ValidProviderInputs, lIn \in FewLimitsInputs : GetUsageStats(pIn, lIn)
    \/ ClearAllUsage

SpecProviders == Init /\ [][NextProviders]_vars

\* SpecThreshold: one provider, every limits object, clock steps of an hour
\* and of a day, so that entries leave the hourly and the daily window
ThresholdClockSteps == {oneHourInMs, oneDayInMs}

NextThreshold ==
    \/ \E d \in ThresholdClockSteps : Tick(d)
    \/ \E pIn \in MainProviderInputs, tIn \in ValidTokenInputs : RecordUsage(pIn, tIn)
    \/ \E pIn \in MainProviderInputs, lIn \in LimitsInputs : ShouldRotateProactively(pIn, lIn)
    \/ \E pIn \in MainProviderInputs, lIn \in LimitsInputs : GetUsageStats(pIn, lIn)

SpecThreshold == Init /\ [][NextThreshold]_vars

\* SpecReset: one provider recording one amount, clock steps of an hour, a
\* day and thirty days, so that each window's reset falls due, and limits
\* with each window configured, with one at 0 and with no limits at all
ResetTokenInputs == {Num(100)}

ResetLimitsInputs ==
    { LimitsGiven([tokensPerHour |-> 500, tokensPerDay |-> 1000]),
      LimitsGiven([tokensPerDay |-> 1000, maxTokensTotal |-> 30000]),
      LimitsGiven([tokensPerHour |-> 0, tokensPerDay |-> 500]),
      LimitsMissing }

NextReset ==
    \/ \E d \in ClockSteps : Tick(d)
    \/ \E pIn \in MainProviderInputs, tIn \in ResetTokenInputs : RecordUsage(pIn, tIn)
    \/ \E pIn \in MainProviderInputs, lIn \in ResetLimitsInputs : ShouldRotateProactively(pIn, lIn)
    \/ \E pIn \in MainProviderInputs, lIn \in ResetLimitsInputs : GetUsageStats(pIn, lIn)

SpecReset == Init /\ [][NextReset]_vars

\* SpecInput: every kind of provider argument and of token argument, valid
\* or not
InputProviderInputs == {Str("openai"), Str(""), NotAString}

NextInput ==
    \/ \E pIn \in InputProviderInputs, tIn \in TokenInputs : RecordUsage(pIn, tIn)
    \/ \E pIn \in InputProviderInputs, lIn \in FewLimitsInputs : GetUsageStats(pIn, lIn)
    \/ \E pIn \in InputProviderInputs : ResetUsage(pIn)
    \/ Tick(oneHourInMs)

SpecInput == Init /\ [][NextInput]_vars

\* SpecRotation: keys added and rotated, usage recorded, instances restarted
RotationTokenInputs == {Num(400), NaN}

\* the keys a provider is given: every name for the first provider, one
\* name for the others
OfferedKeys(p) == IF p = "openai" THEN ApiKeyNames ELSE {"key1"}

NextRotation ==
    \/ \E p \in Providers : \E key \in OfferedKeys(p) : AddKey(p, key)
    \/ \E p \in Providers : RotateToNextKey(p)
    \/ \E tIn \in RotationTokenInputs : RecordUsage(Str("openai"), tIn)
    \/ \E lIn \in FewLimitsInputs : GetUsageStats(Str("openai"), lIn)
    \/ \E lIn \in FewLimitsInputs : ShouldRotateProactively(Str("openai"), lIn)
    \/ Restart

SpecRotation == Init /\ [][NextRotation]_vars

\* SpecFaults: one provider over a storage service whose calls throw
FaultSets == {NoFaults, {"store"}, {"remove"}, StorageCalls}

NextFaults ==
    \/ \E faults \in FaultSets : StorageFaults(faults)
    \/ \E tIn \in ValidTokenInputs : RecordUsage(Str("openai"), tIn)
    \/ \E lIn \in FewLimitsInputs : GetUsageStats(Str("openai"), lIn)
    \/ \E lIn \in FewLimitsInputs : ShouldRotateProactively(Str("openai"), lIn)
    \/ ResetUsage(Str("openai"))
    \/ ClearAllUsage

SpecFaults == Init /\ [][NextFaults]_vars

\* SpecPayload: an instance constructed over a storage that holds a payload
\* the tracker did not write: the empty string, a text that is not JSON, the
\* JSON text of a value that is no object, or an object whose provider record
\* has no usage array, with or without reset timestamps
RecordWithoutUsage == <<>>
StampedRecordWithoutUsage ==
    [lastDailyReset |-> EpochStart, lastMonthlyReset |-> EpochStart,
     lastHourlyReset |-> EpochStart]

MalformedPayloads ==
    { EmptyString, InvalidJson, NonObjectJson,
      ObjectText([p \in {"openai"} |-> [i \in {"0"} |-> RecordWithoutUsage]]),
      ObjectText([p \in {"openai"} |-> [i \in {"0"} |-> StampedRecordWithoutUsage]]) }

InitPayload ==
    /\ now = EpochStart
    /\ ticks = 0
    /\ storage \in {Stored(text) : text \in MalformedPayloads}
    /\ recorded = NothingRecorded
    /\ call = NoArgs("construct")
    /\ ret = RetUndefined
    /\ settingsState = [p \in Providers |-> NoRotationState]
    /\ settingsStorage = SerializeRotation([p \in Providers |-> NoRotationState])
    /\ QueueInit

NextPayload ==
    \/ \E pIn \in ValidProviderInputs, tIn \in ValidTokenInputs : RecordUsage(pIn, tIn)
    \/ \E pIn \in ValidProviderInputs, lIn \in FewLimitsInputs : GetUsageStats(pIn, lIn)
    \/ \E pIn \in ValidProviderInputs, lIn \in FewLimitsInputs : ShouldRotateProactively(pIn, lIn)
    \/ \E pIn \in ValidProviderInputs : ResetUsage(pIn)
    \/ ClearAllUsage
    \/ CleanupTimer
    \/ Tick(oneDayInMs)

SpecPayload == InitPayload /\ [][NextPayload]_vars

\* SpecSweep: two providers recording one amount, the sweep, the queries
\* with and without limits, clock steps of a day and of thirty days, so that
\* entries are younger than, exactly as old as and older than the retention
SweepClockSteps == {oneDayInMs, thirtyDaysInMs}

SweepLimitsInputs ==
    { LimitsMissing, LimitsGiven([tokensPerHour |-> 500, tokensPerDay |-> 1000]) }

NextSweep ==
    \/ \E d \in SweepClockSteps : Tick(d)
    \/ \E pIn \in ValidProviderInputs, tIn \in ResetTokenInputs : RecordUsage(pIn, tIn)
    \/ \E pIn \in ValidProviderInputs, lIn \in SweepLimitsInputs : GetUsageStats(pIn, lIn)
    \/ \E pIn \in ValidProviderInputs, lIn \in SweepLimitsInputs : ShouldRotateProactively(pIn, lIn)
    \/ CleanupTimer

SpecSweep == Init /\ [][NextSweep]_vars

\* SpecQueue: tasks of every priority queued at different times, cancelled,
\* processed by a processor that resolves or rejects, the service restarted
TaskIds == 1..MaxTasks
QueuePriorities == {"high", "low"}

\* the clock is read by queueTask only: it advances between two queueTask
\* calls
QueueClock ==
    /\ call.op = "queueTask"
    /\ Len(tasks) < MaxTasks
    /\ Tick(oneHourInMs)

NextQueue ==
    \/ QueueClock
    \/ \E priority \in QueuePriorities : QueueTask(priority)
    \/ \E taskId \in TaskIds : CancelTask(taskId)
    \/ ProcessNextTask
    \/ TimerFires
    \/ \E taskId \in TaskIds, status \in {"completed", "failed"} : ProcessorSettles(taskId, status)
    \/ QueueRestart

SpecQueue == Init /\ [][NextQueue]_vars

\* SpecEstimate: estimateTokens applied to every text of up to MaxTextLen
\* units and to a value that is no string
TextInputs ==
    {Text(chars) : chars \in UNION {[1..n -> Chars] : n \in 0..MaxTextLen}} \cup {NotAText}

NextEstimate == \E text \in TextInputs : EstimateTokens(text)

SpecEstimate == Init /\ [][NextEstimate]_vars

\* SpecLedgers: two providers whose ledgers are created, reset and cleared
NextLedgers ==
    \/ \E pIn \in ValidProviderInputs, tIn \in ValidTokenInputs : RecordUsage(pIn, tIn)
    \/ \E pIn \in ValidProviderInputs, lIn \in FewLimitsInputs : GetUsageStats(pIn, lIn)
    \/ \E pIn \in ValidProviderInputs, lIn \in FewLimitsInputs : ShouldRotateProactively(pIn, lIn)
    \/ \E pIn \in ValidProviderInputs : ResetUsage(pIn)
    \/ ClearAllUsage

SpecLedgers == Init /\ [][NextLedgers]_vars

----------------------------------------------------------------------------
(* Vocabulary of the properties *)

WindowFields == {"tokensPerHour", "tokensPerDay", "maxTokensTotal"}

WindowMs(field) ==
    IF field = "tokensPerHour" THEN oneHourInMs
    ELSE IF field = "tokensPerDay" THEN oneDayInMs
    ELSE thirtyDaysInMs

\* the entries of provider p in the store
Ledger(st, p) ==
    LET data == LoadUsageData(st)
    IN  IF HasLedger(data, p) /\ HasUsage(data[p]["0"]) THEN data[p]["0"].usage ELSE <<>>

\* the tokens of the entries whose timestamp lies in [t - windowMs, t]
TokensInWindow(entries, t, windowMs) ==
    LET inside == {i \in DOMAIN entries :
                      entries[i].timestamp >= t - windowMs /\ entries[i].timestamp <= t}
    IN  SumOver([i \in inside |-> entries[i].tokens.v], inside)

TokensOf(entries) == SumOver([i \in DOMAIN entries |-> entries[i].tokens.v], DOMAIN entries)

StatsUsage(stats, field) ==
    IF field = "tokensPerHour" THEN stats.hourlyUsage
    ELSE IF field = "tokensPerDay" THEN stats.dailyUsage
    ELSE stats.monthlyUsage

StatsUtilization(stats, field) ==
    IF field = "tokensPerHour" THEN stats.hourlyUtilization
    ELSE IF field = "tokensPerDay" THEN stats.dailyUtilization
    ELSE stats.monthlyUtilization

\* the window of field is configured in limits and its utilization, over
\* entries at time t, is at least num / den
WindowReaches(entries, limits, field, t, num, den) ==
    /\ field \in DOMAIN limits
    /\ limits[field] > 0
    /\ den * TokensInWindow(entries, t, WindowMs(field)) >= num * limits[field]

\* limits objects that leave the threshold at its default
DefaultThresholdLimits ==
    {lIn \in LimitsInputs : lIn.given /\ "proactiveThreshold" \notin DOMAIN lIn.val}

InvalidProviderId(pIn) == ~pIn.isString \/ pIn.name = ""
InvalidTokenCount(tIn) == tIn.t # "finite" \/ tIn.v < 0

----------------------------------------------------------------------------
(* Rotation *)

\* C1: rotation never wraps.  A rotateToNextKey call on a provider with n
\* keys at index i succeeds and moves the index to i + 1 when i + 1 < n;
\* otherwise it reports exhaustion and leaves the index where it is.  No
\* step ever lowers an index, so starting from 0 exactly n - 1 calls succeed
\* and a provider with zero or one key never sees a success.
C1_NonWrappingRotation ==
    [][\A p \in Providers :
          /\ settingsState'[p].currentKeyIndex >= settingsState[p].currentKeyIndex
          /\ (call'.op = "rotateToNextKey" /\ call'.provider = Str(p)) =>
                LET n == Len(settingsState[p].apiKeys)
                    i == settingsState[p].currentKeyIndex
                IN  /\ settingsState'[p].apiKeys = settingsState[p].apiKeys
                    /\ IF i + 1 < n
                       THEN ret' = RetBool(TRUE) /\ settingsState'[p].currentKeyIndex = i + 1
                       ELSE ret' = RetBool(FALSE) /\ settingsState'[p].currentKeyIndex = i
                    /\ n <= 1 => ret' = RetBool(FALSE)]_vars

\* a rotation was refused on the last of several keys, reached by rotating
C1_Witness ==
    /\ call.op = "rotateToNextKey"
    /\ ret = RetBool(FALSE)
    /\ \E p \in Providers :
          /\ call.provider = Str(p)
          /\ Len(settingsState[p].apiKeys) >= 2
          /\ settingsState[p].currentKeyIndex = Len(settingsState[p].apiKeys) - 1

\* C2: whenever a provider has keys its currentKeyIndex is a valid index
\* into them, and a rotation on a provider without keys changes nothing.
C2_IndexAlwaysValid ==
    /\ [](\A p \in Providers :
            Len(settingsState[p].apiKeys) > 0 =>
                /\ settingsState[p].currentKeyIndex >= 0
                /\ settingsState[p].currentKeyIndex < Len(settingsState[p].apiKeys))
    /\ [][\A p \in Providers :
            (call'.op = "rotateToNextKey" /\ call'.provider = Str(p)
                /\ Len(settingsState[p].apiKeys) = 0) =>
                /\ settingsState' = settingsState
                /\ settingsStorage' = settingsStorage
                /\ storage' = storage]_vars

\* a rotation was attempted on a provider that has no key, after usage was
\* recorded
C2_Witness ==
    /\ call.op = "rotateToNextKey"
    /\ \E p \in Providers : call.provider = Str(p) /\ Len(settingsState[p].apiKeys) = 0
    /\ \E p \in Providers : Len(settingsState[p].apiKeys) = 2 /\ settingsState[p].currentKeyIndex = 1
    /\ storage.present

----------------------------------------------------------------------------
(* Accumulation and thresholds *)

\* C3 (as claimed): while every usage event recorded for a provider since
\* its last reset lies inside a window, a query made now, with any limits,
\* reports for that window the sum of the recorded tokens.
C3_MonotonicAccumulation ==
    \A p \in Providers, lIn \in LimitsInputs, field \in WindowFields :
        (/\ recorded[p] # <<>>
         /\ \A i \in DOMAIN recorded[p] :
               recorded[p][i].timestamp >= now - WindowMs(field)) =>
            LET r == getUsageStats(storage, Str(p), lIn, now).ret
            IN  /\ r.kind = "stats"
                /\ StatsUsage(r.stats, field) = Num(TokensOf(recorded[p]))

\* C4: shouldRotateProactively answers true exactly when some configured
\* window has usage / limit >= 0.8, i.e. when the largest utilization
\* reaches the threshold; equality counts, and utilizations are not added.
C4_ThresholdBoundary ==
    [][\A pIn \in {call'.provider}, lIn \in DefaultThresholdLimits :
          (call'.op = "shouldRotateProactively" /\ ShouldRotateProactively(pIn, lIn)) =>
              (ret'.bool <=>
                  \E field \in WindowFields :
                      WindowReaches(Ledger(storage', pIn.name), lIn.val, field, now', 4, 5))]_vars

\* rotation was recommended with the largest utilization exactly 0.8
C4_Witness ==
    /\ call.op = "shouldRotateProactively"
    /\ ret = RetBool(TRUE)
    /\ \E lIn \in DefaultThresholdLimits :
          /\ shouldRotateProactively(storage, call.provider, lIn, now).ret = RetBool(TRUE)
          /\ \E field \in WindowFields :
                /\ field \in DOMAIN lIn.val
                /\ 5 * TokensInWindow(Ledger(storage, call.provider.name), now, WindowMs(field))
                      = 4 * lIn.val[field]
          /\ \A field \in WindowFields :
                field \in DOMAIN lIn.val =>
                    5 * TokensInWindow(Ledger(storage, call.provider.name), now, WindowMs(field))
                        <= 4 * lIn.val[field]

\* the stats carry the limits of the call that returned them
LimitsEchoed(stats, lIn) ==
    LET limits == IF lIn.given THEN lIn.val ELSE NoLimitsObject
    IN  /\ stats.hourlyLimit = Opt(limits, "tokensPerHour")
        /\ stats.dailyLimit = Opt(limits, "tokensPerDay")
        /\ stats.monthlyLimit = Opt(limits, "maxTokensTotal")

\* C5: a window whose limit is absent reads utilization 0 in getUsageStats
\* whatever was recorded, and cannot cause a rotation: a true answer of
\* shouldRotateProactively needs a limits object and a configured window
\* that reaches the threshold by itself.
C5_NoLimitNeutrality ==
    [][/\ \A pIn \in {call'.provider}, lIn \in LimitsInputs :
            (call'.op = "getUsageStats" /\ ret'.kind = "stats"
                /\ LimitsEchoed(ret'.stats, lIn) /\ GetUsageStats(pIn, lIn)) =>
                \A field \in WindowFields :
                    (~lIn.given \/ field \notin DOMAIN lIn.val) =>
                        StatsUtilization(ret'.stats, field) = ZeroRatio
       /\ \A pIn \in {call'.provider}, lIn \in LimitsInputs :
            (call'.op = "shouldRotateProactively" /\ ret'.bool /\ ShouldRotateProactively(pIn, lIn)) =>
                /\ lIn.given
                /\ \E field \in WindowFields :
                      WindowReaches(Ledger(storage', pIn.name), lIn.val, field, now', 4, 5)]_vars

\* stats were returned with usage in the daily window and no daily limit
C5_Witness ==
    /\ call.op = "getUsageStats"
    /\ ret.kind = "stats"
    /\ ret.stats.dailyLimit = <<>>
    /\ ret.stats.dailyUsage.v > 0
    /\ ret.stats.dailyUtilization = ZeroRatio

----------------------------------------------------------------------------
(* Providers, resets and restarts *)

\* what a query on provider q with limits lIn would answer in a store
StatsAnswer(st, q, lIn, t) == getUsageStats(st, Str(q), lIn, t).ret
RotateAnswer(st, q, lIn, t) == shouldRotateProactively(st, Str(q), lIn, t).ret

\* C6: a successful recordUsage(a, n) leaves the answers of getUsageStats
\* and shouldRotateProactively for every other provider as they were, and
\* raises each window's usage of provider a by exactly n.
C6_WindowIndependence ==
    [][\A a \in Providers :
          (call'.op = "recordUsage" /\ call'.provider = Str(a) /\ storage' # storage) =>
              /\ \A b \in Providers \ {a}, lIn \in LimitsInputs :
                    /\ StatsAnswer(storage', b, lIn, now') = StatsAnswer(storage, b, lIn, now)
                    /\ RotateAnswer(storage', b, lIn, now') = RotateAnswer(storage, b, lIn, now)
              /\ \A field \in WindowFields :
                    TokensInWindow(Ledger(storage', a), now', WindowMs(field))
                        = TokensInWindow(Ledger(storage, a), now, WindowMs(field)) + call'.tokens.v]_vars

\* usage was just recorded for one provider while another holds usage too
C6_Witness ==
    /\ call.op = "recordUsage"
    /\ \E a \in Providers, b \in Providers :
          /\ a # b
          /\ call.provider = Str(a)
          /\ Len(Ledger(storage, a)) > 0
          /\ Len(Ledger(storage, b)) > 0

\* C7 (as claimed): right after resetUsage(p) on a provider that had entries,
\* getUsageStats(p, limits) answers null for every limits object.
C7_ResetThenNull ==
    [][\A p \in Providers :
          (call'.op = "resetUsage" /\ call'.provider = Str(p)
              /\ Len(Ledger(storage, p)) > 0) =>
              \A lIn \in LimitsInputs : StatsAnswer(storage', p, lIn, now') = RetNull]_vars

\* C8: right after clearAllUsage every provider reads as having no data:
\* getUsageStats answers null and shouldRotateProactively answers false,
\* for every limits object.
C8_ClearAllThenNothing ==
    call.op = "clearAllUsage" =>
        \A p \in Providers, lIn \in LimitsInputs :
            /\ StatsAnswer(storage, p, lIn, now) = RetNull
            /\ RotateAnswer(storage, p, lIn, now) = RetBool(FALSE)

\* clearAllUsage ran on a store that held data of both providers
C8_Witness ==
    /\ call.op = "clearAllUsage"
    /\ call.logged = Cardinality(Providers)

C10_InvalidInputIgnored ==
    [][(call'.op = "recordUsage"
          /\ (InvalidProviderId(call'.provider) \/ InvalidTokenCount(call'.tokens))) =>
            /\ storage' = storage
            /\ ret' = RetUndefined
            /\ \A p \in Providers, lIn \in FewLimitsInputs :
                  StatsAnswer(storage', p, lIn, now') = StatsAnswer(storage, p, lIn, now)]_vars

\* recordUsage was called with NaN on a store that already holds usage
C10_Witness ==
    /\ call.op = "recordUsage"
    /\ call.tokens = NaN
    /\ ValidProviderName(call.provider)
    /\ Len(Ledger(storage, call.provider.name)) > 0

----------------------------------------------------------------------------
(* Failures of the storage service *)

\* C11 (as claimed): when the write of a recordUsage(p, t) call fails, the
\* call returns normally and the usage stays counted: a getUsageStats call
\* that follows reports at least t tokens in the hourly window.
C11_WriteFailureKeepsUsage ==
    [][\A p \in Providers :
          (call'.op = "recordUsage" /\ call'.provider = Str(p)
              /\ ValidTokensUsed(call'.tokens) /\ "store" \in storage.faults) =>
              /\ ret' = RetUndefined
              /\ \A lIn \in LimitsInputs :
                    LET r == StatsAnswer(storage', p, lIn, now')
                    IN  r.kind = "stats" /\ r.stats.hourlyUsage.v >= call'.tokens.v]_vars

\* C12: over a storage service whose get, store and remove all throw,
\* recordUsage returns normally and getUsageStats answers null, both when
\* asked right after the recordUsage call and whenever it is called.
C12_FailingStorageReadsNull ==
    [][storage.faults = StorageCalls =>
          /\ call'.op = "recordUsage" =>
                /\ ret' = RetUndefined
                /\ \A p \in Providers, lIn \in LimitsInputs :
                      StatsAnswer(storage', p, lIn, now') = RetNull
          /\ call'.op = "getUsageStats" => ret' = RetNull]_vars

\* recordUsage was called with valid arguments on a storage service that
\* throws on every call and holds usage written before it began to throw
C12_Witness ==
    /\ call.op = "recordUsage"
    /\ ValidProviderName(call.provider) /\ ValidTokensUsed(call.tokens)
    /\ storage.faults = StorageCalls
    /\ storage.present
    /\ ret = RetUndefined

\* C13 (as claimed): while storage calls throw, none of recordUsage,
\* shouldRotateProactively, getUsageStats, resetUsage and clearAllUsage
\* lets an exception out.
C13_NothingIsFatal ==
    [][(storage.faults # NoFaults
          /\ call'.op \in {"recordUsage", "shouldRotateProactively", "getUsageStats",
                           "resetUsage", "clearAllUsage"}) =>
            ret'.kind # "throws"]_vars

----------------------------------------------------------------------------
(* Ledgers *)

\* C14: a provider without a ledger reads as having no data, getUsageStats
\* null and shouldRotateProactively false for every limits object, whatever
\* was done to other providers; and a ledger comes into existence only by a
\* recordUsage call for that provider, never by a query, a reset or a clear.
C14_NoLedgerWithoutRecord ==
    /\ [](\A p \in Providers :
            ~HasLedger(LoadUsageData(storage), p) =>
                \A lIn \in LimitsInputs :
                    /\ StatsAnswer(storage, p, lIn, now) = RetNull
                    /\ RotateAnswer(storage, p, lIn, now) = RetBool(FALSE))
    /\ [][\A p \in Providers :
            (~HasLedger(LoadUsageData(storage), p) /\ HasLedger(LoadUsageData(storage'), p)) =>
                /\ call'.op = "recordUsage"
                /\ call'.provider = Str(p)
                /\ ValidTokensUsed(call'.tokens)]_vars

\* getUsageStats answered null for a provider that was never recorded for,
\* while the other provider holds usage
C14_Witness ==
    /\ call.op = "getUsageStats"
    /\ ret = RetNull
    /\ \E p \in Providers, q \in Providers :
          /\ call.provider = Str(q)
          /\ ~HasLedger(LoadUsageData(storage), q)
          /\ Len(Ledger(storage, p)) > 0

----------------------------------------------------------------------------
(* The threshold of a provider *)

\* the threshold limits asks for: proactiveThreshold when given, else 0.8
ClaimedThreshold(limits) ==
    IF "proactiveThreshold" \in DOMAIN limits THEN limits.proactiveThreshold
    ELSE PROACTIVE_ROTATION_THRESHOLD

\* C15 (as claimed): shouldRotateProactively answers true exactly when some
\* configured window has usage / limit >= limits.proactiveThreshold, or
\* >= 0.8 when limits gives no proactiveThreshold.
C15_ThresholdOverride ==
    [][\A pIn \in ValidProviderInputs, lIn \in LimitsInputs :
          (call'.op = "shouldRotateProactively" /\ lIn.given
              /\ ShouldRotateProactively(pIn, lIn)) =>
              (ret'.bool <=>
                  \E field \in WindowFields :
                      WindowReaches(Ledger(storage', pIn.name), lIn.val, field, now',
                                    ClaimedThreshold(lIn.val)[1],
                                    ClaimedThreshold(lIn.val)[2]))]_vars

----------------------------------------------------------------------------
(* Rotation and usage *)

----------------------------------------------------------------------------
(* Persisted payloads *)

\* the stored text is none the tracker writes
Malformed(st) ==
    /\ st.present
    /\ \/ st.text.form # "object"
       \/ \E p \in DOMAIN st.text.value : \E i \in DOMAIN st.text.value[p] :
              ~HasUsage(st.text.value[p][i])

\* C17 (as claimed): a malformed or empty persisted payload reads as an
\* empty store.  No operation, query or cleanup run raises, and while the
\* payload is in the storage every provider reads as having no ledger:
\* getUsageStats null and shouldRotateProactively false.
C17_MalformedPayloadIsEmpty ==
    /\ [](ret.kind # "throws")
    /\ [][(Malformed(storage) /\ ValidProviderName(call'.provider)) =>
            /\ call'.op = "getUsageStats" => ret' = RetNull
            /\ call'.op = "shouldRotateProactively" => ret' = RetBool(FALSE)]_vars

----------------------------------------------------------------------------
(* estimateTokens *)

\* the text of the call
TextOf(c) == c.text

----------------------------------------------------------------------------
(* Queries and the store *)

Queries == {"getUsageStats", "shouldRotateProactively"}

\* C19 (as claimed): shouldRotateProactively and getUsageStats are pure
\* queries: a call to either leaves the persisted ledger of every provider,
\* its entries and its lastHourlyReset, lastDailyReset and lastMonthlyReset,
\* as it was.
C19_QueriesArePure ==
    [][call'.op \in Queries => LoadUsageData(storage') = LoadUsageData(storage)]_vars

----------------------------------------------------------------------------
(* Automatic window reset *)

ResetFieldOf(field) ==
    IF field = "tokensPerHour" THEN "lastHourlyReset"
    ELSE IF field = "tokensPerDay" THEN "lastDailyReset"
    ELSE "lastMonthlyReset"

\* the limit of the window is configured: present and above 0
Configured(lIn, field) ==
    lIn.given /\ field \in DOMAIN lIn.val /\ lIn.val[field] > 0

\* the record of provider p in the store
KeyData(st, p) == LoadUsageData(st)[p]["0"]

\* the configured windows of lIn whose reset is due at time t
DueWindows(k, lIn, t) ==
    {field \in WindowFields :
        Configured(lIn, field) /\ t - k[ResetFieldOf(field)] >= WindowMs(field)}

\* C20: at the start of a query, for each window whose limit is configured
\* and for which now - lastXReset >= the window's duration, exactly the
\* entries at least that duration old are dropped and lastXReset becomes
\* now; for a window that is not configured or not yet due, lastXReset is
\* unchanged and no entry is dropped on its account.
C20_AutomaticWindowReset ==
    [][\A pIn \in MainProviderInputs, lIn \in ResetLimitsInputs :
          (/\ HasLedger(LoadUsageData(storage), pIn.name)
           /\ \/ call'.op = "getUsageStats" /\ GetUsageStats(pIn, lIn)
              \/ call'.op = "shouldRotateProactively" /\ ShouldRotateProactively(pIn, lIn)) =>
              LET k == KeyData(storage, pIn.name)
                  kAfter == KeyData(storage', pIn.name)
                  due == DueWindows(k, lIn, now)
              IN  /\ \A field \in WindowFields :
                        kAfter[ResetFieldOf(field)] =
                            IF field \in due THEN now ELSE k[ResetFieldOf(field)]
                  /\ kAfter.usage =
                        SelectSeq(k.usage, LAMBDA entry :
                            \A field \in due : now - entry.timestamp < WindowMs(field))]_vars

\* a query has just run an hourly reset that dropped an entry, while the
\* daily and the 30-day window were not due and kept their timestamps
C20_Witness ==
    /\ call.op \in Queries
    /\ HasLedger(LoadUsageData(storage), "openai")
    /\ Len(recorded["openai"]) > Len(Ledger(storage, "openai"))
    /\ KeyData(storage, "openai").lastHourlyReset = now
    /\ KeyData(storage, "openai").lastDailyReset < now
    /\ KeyData(storage, "openai").lastMonthlyReset < now

----------------------------------------------------------------------------
(* The sweep *)

\* the step is a sweep that did not raise
Swept == call'.op = "cleanupExpiredData" /\ ret' = RetUndefined

\* C21: after a sweep at time now every entry left in every provider ledger
\* has now - timestamp < 30 days, every entry younger than 30 days that was
\* there before is still there with its timestamp and tokens, and the reset
\* timestamps are as they were.
C21_SweepRetention ==
    [][Swept =>
          LET before == LoadUsageData(storage)
              after == LoadUsageData(storage')
          IN  /\ DOMAIN after = DOMAIN before
              /\ \A p \in DOMAIN before :
                    LET k == before[p]["0"]
                        kAfter == after[p]["0"]
                    IN  /\ \A i \in DOMAIN kAfter.usage :
                              now - kAfter.usage[i].timestamp < thirtyDaysInMs
                        /\ kAfter.usage =
                              SelectSeq(k.usage, LAMBDA entry :
                                  now - entry.timestamp < thirtyDaysInMs)
                        /\ kAfter.lastHourlyReset = k.lastHourlyReset
                        /\ kAfter.lastDailyReset = k.lastDailyReset
                        /\ kAfter.lastMonthlyReset = k.lastMonthlyReset]_vars

\* a sweep has just removed an entry and left a younger one
C21_Witness ==
    /\ call.op = "cleanupExpiredData"
    /\ call.logged > 0
    /\ TotalEntries(storage) > 0

\* every entry of usage after is an entry of usage before
OnlyRemoves(before, after) ==
    /\ Len(after) <= Len(before)
    /\ \A i \in DOMAIN after : \E j \in DOMAIN before : before[j] = after[i]

\* C22: the sweep is monotonic and idempotent: it only removes entries, and
\* a second sweep at the same time with no recordUsage in between removes
\* nothing and performs no persistence write.
C22_SweepIdempotent ==
    [][Swept =>
          /\ \A p \in Providers : OnlyRemoves(Ledger(storage, p), Ledger(storage', p))
          /\ ~cleanupHasChanges(LoadUsageData(storage'), now')
          /\ cleanupExpiredData(storage', now') = storage'
          /\ call.op = "cleanupExpiredData" =>
                /\ storage' = storage
                /\ call'.logged = 0
                /\ ~cleanupHasChanges(LoadUsageData(storage), now)]_vars

\* a sweep has just found nothing to remove, in a store whose recorded entry
\* of 30 days or more is gone
C22_Witness ==
    /\ call.op = "cleanupExpiredData"
    /\ call.logged = 0
    /\ \E p \in Providers :
          /\ \E i \in DOMAIN recorded[p] : now - recorded[p][i].timestamp >= thirtyDaysInMs
          /\ Len(recorded[p]) > Len(Ledger(storage, p))

\* C23 (as claimed): for every ledger and every time now, getUsageStats and
\* shouldRotateProactively at now answer the same whether or not the sweep
\* at now ran first, also for an entry of exactly 30 days.
C23_SweepBeforeQuery ==
    \A p \in Providers, lIn \in SweepLimitsInputs :
        /\ StatsAnswer(cleanupExpiredData(storage, now), p, lIn, now)
              = StatsAnswer(storage, p, lIn, now)
        /\ RotateAnswer(cleanupExpiredData(storage, now), p, lIn, now)
              = RotateAnswer(storage, p, lIn, now)

----------------------------------------------------------------------------
(* The order of a ledger *)

SortedByTimestamp(usage) ==
    \A i, j \in DOMAIN usage : i < j => usage[i].timestamp <= usage[j].timestamp

\* C24: in every reachable state the entries of each provider ledger are
\* sorted by timestamp ascending, the clock never going back: recordUsage
\* appends at the end with the current time, and sweeps and automatic
\* resets remove entries without reordering the rest.
C24_LedgerSorted ==
    \A p \in Providers : SortedByTimestamp(Ledger(storage, p))

\* a ledger holds two entries recorded at different times
C24_Witness ==
    \E p \in Providers :
        /\ Len(Ledger(storage, p)) >= 2
        /\ Ledger(storage, p)[1].timestamp < Ledger(storage, p)[2].timestamp

----------------------------------------------------------------------------
(* The frame of resetUsage *)

\* C25: resetUsage(p) clears the ledger of provider p only: the entries,
\* the reset timestamps and the answers of the queries of every other
\* provider are as they were, and resetUsage on a provider without a ledger
\* changes nothing and writes nothing.
C25_ResetUsageFrame ==
    [][\A a \in Providers :
          (call'.op = "resetUsage" /\ call'.provider = Str(a)) =>
              LET before == LoadUsageData(storage)
                  after == LoadUsageData(storage')
              IN  /\ \A b \in Providers \ {a} :
                        /\ HasLedger(after, b) <=> HasLedger(before, b)
                        /\ HasLedger(before, b) => after[b] = before[b]
                        /\ \A lIn \in FewLimitsInputs :
                              /\ StatsAnswer(storage', b, lIn, now') = StatsAnswer(storage, b, lIn, now)
                              /\ RotateAnswer(storage', b, lIn, now') = RotateAnswer(storage, b, lIn, now)
                  /\ HasLedger(before, a) =>
                        HasLedger(after, a) /\ Ledger(storage', a) = <<>>
                  /\ ~HasLedger(before, a) =>
                        storage' = storage /\ resetUsage(storage, Str(a), now) = storage]_vars

\* resetUsage has just emptied the ledger of one provider while the other
\* provider keeps its entry
C25_Witness ==
    /\ call.op = "resetUsage"
    /\ HasLedger(LoadUsageData(storage), call.provider.name)
    /\ Len(recorded[call.provider.name]) = 0
    /\ \E b \in Providers \ {call.provider.name} : Len(Ledger(storage, b)) > 0

----------------------------------------------------------------------------
(* Adding a key *)

\* the last call was an advance of provider p that reported exhaustion
JustExhausted(p) ==
    call.op = "rotateToNextKey" /\ call.provider = Str(p) /\ ret = RetBool(FALSE)

\* exactly one further advance of provider p succeeds
OneAdvanceLeft(state, p) == CanAdvance(state, p) /\ ~CanAdvance(advance(state, p), p)

\* the step appends call'.key to the apiKeys of provider p and leaves every
\* currentKeyIndex, every existing current key and the other providers' keys
AddKeyFrame(p) ==
    /\ settingsState'[p].apiKeys = Append(settingsState[p].apiKeys, call'.key)
    /\ \A q \in Providers :
          /\ settingsState'[q].currentKeyIndex = settingsState[q].currentKeyIndex
          /\ q # p => settingsState'[q].apiKeys = settingsState[q].apiKeys
          /\ Len(settingsState[q].apiKeys) > 0 =>
                currentKey(settingsState', q) = currentKey(settingsState, q)

\* C26 (as claimed): addKey(provider, key) appends the key at the end of the
\* provider's apiKeys and leaves currentKeyIndex, for that provider and for
\* every other; after an exhausted result, adding a key makes exactly one
\* further advance succeed.
C26_AddKeyAsClaimed ==
    [][\A p \in Providers :
          (call'.op = "addKey" /\ call'.provider = Str(p)) =>
              /\ AddKeyFrame(p)
              /\ JustExhausted(p) => OneAdvanceLeft(settingsState', p)]_vars

\* C26 (amended): addKey(provider, key) appends the key at the end of the
\* provider's apiKeys and leaves currentKeyIndex, for that provider and for
\* every other; after an exhausted result of a provider that has a key,
\* adding a key makes exactly one further advance succeed, and after an
\* exhausted result of a provider without keys the added key is the current
\* one and advance still reports exhaustion.
C26_AddKey ==
    [][\A p \in Providers :
          (call'.op = "addKey" /\ call'.provider = Str(p)) =>
              /\ AddKeyFrame(p)
              /\ (JustExhausted(p) /\ Len(settingsState[p].apiKeys) > 0) =>
                    OneAdvanceLeft(settingsState', p)
              /\ (JustExhausted(p) /\ Len(settingsState[p].apiKeys) = 0) =>
                    /\ ~CanAdvance(settingsState', p)
                    /\ currentKey(settingsState', p) = <<call'.key>>]_vars

\* a key has just been added to a provider whose current key was its last,
\* and one advance is possible again
C26_Witness ==
    /\ call.op = "addKey"
    /\ \E p \in Providers :
          /\ call.provider = Str(p)
          /\ Len(settingsState[p].apiKeys) >= 2
          /\ settingsState[p].currentKeyIndex = Len(settingsState[p].apiKeys) - 2
          /\ settingsState[p].apiKeys[Len(settingsState[p].apiKeys)] = call.key
          /\ OneAdvanceLeft(settingsState, p)

----------------------------------------------------------------------------
(* The empty ledger *)

ResetFields == {"lastHourlyReset", "lastDailyReset", "lastMonthlyReset"}

\* every entry of usage is older than the longest window at time t
AllAgedOut(usage, t) ==
    \A i \in DOMAIN usage : usage[i].timestamp < t - thirtyDaysInMs

\* C27: once a provider has a ledger, no sweep and no automatic window
\* reset deletes it, and its reset timestamps stay; when all its entries
\* have aged out, getUsageStats returns a result that is not null, with
\* hourly, daily and monthly usage 0.
C27_EmptyLedgerKept ==
    [][\A p \in Providers :
          HasLedger(LoadUsageData(storage), p) =>
              /\ call'.op \in Queries \cup {"cleanupExpiredData"} =>
                    /\ HasLedger(LoadUsageData(storage'), p)
                    /\ ResetFields \subseteq DOMAIN KeyData(storage', p)
                    /\ \A f \in ResetFields : KeyData(storage', p)[f] > 0
              /\ (/\ call'.op = "getUsageStats"
                  /\ call'.provider = Str(p)
                  /\ AllAgedOut(Ledger(storage, p), now)) =>
                    /\ ret'.kind = "stats"
                    /\ \A field \in WindowFields : StatsUsage(ret'.stats, field) = Num(0)]_vars

\* getUsageStats has just answered zeros for a provider whose entries were
\* recorded more than 30 days ago and removed, its ledger being empty
C27_Witness ==
    /\ call.op = "getUsageStats"
    /\ ret.kind = "stats"
    /\ ret.stats.monthlyUsage = Num(0)
    /\ LET p == call.provider.name
       IN  /\ Len(recorded[p]) > 0
           /\ AllAgedOut(recorded[p], now)
           /\ HasLedger(LoadUsageData(storage), p)
           /\ KeyData(storage, p).usage = <<>>

----------------------------------------------------------------------------
(* Interleaved operations *)

\* C28 (as claimed): when recordUsage calls, sweep-timer callbacks and
\* queries interleave in any order, every successfully recorded entry
\* younger than 30 days is in the store afterwards, so the 30-day usage is
\* the sum of all such entries.
C28_NoLostUpdates ==
    \A p \in Providers :
        YoungerThan(Ledger(storage, p), now, thirtyDaysInMs)
            = YoungerThan(recorded[p], now, thirtyDaysInMs)

----------------------------------------------------------------------------
(* The async task queue *)

\* the status of the task with this id
StatusOf(ts, id) == ts[IndexOf(ts, id)].status

\* C29 (as claimed): terminal states are absorbing: once the status of a
\* task is cancelled, completed or failed it never changes again; a task
\* cancelled while its processor runs does not become completed or failed
\* when the processor settles.
C29_TerminalAbsorbing ==
    [][\A i \in DOMAIN tasks :
          tasks[i].status \in Terminal =>
              /\ IndexOf(tasks', tasks[i].id) # 0
              /\ StatusOf(tasks', tasks[i].id) = tasks[i].status]_vars

ProcessNextTaskCallers == {"processNextTask", "setTimeout"}

\* task t is a pending task of highest priority, oldest among its equals
FirstPending(ts, t) ==
    /\ t.status = "pending"
    /\ \A i \in DOMAIN ts :
          ts[i].status = "pending" =>
              \/ priorityMap(t.priority) > priorityMap(ts[i].priority)
              \/ /\ priorityMap(t.priority) = priorityMap(ts[i].priority)
                 /\ t.createdAt <= ts[i].createdAt

\* C30: at most one processor invocation is in flight at any time: a
\* processNextTask call made while another awaits its processor returns
\* without changing any task, and the task a call starts is the pending
\* task of highest priority, oldest createdAt first among equal priorities.
C30_SingleProcessor ==
    /\ [](Cardinality(inFlight) <= 1 /\ (isProcessing <=> inFlight # {}))
    /\ [][/\ (call'.op \in ProcessNextTaskCallers /\ inFlight # {}) =>
                /\ tasks' = tasks
                /\ inFlight' = inFlight
                /\ taskStorage' = taskStorage
          /\ \A id \in inFlight' \ inFlight :
                /\ call'.op \in ProcessNextTaskCallers
                /\ FirstPending(tasks, tasks[IndexOf(tasks, id)])
                /\ StatusOf(tasks', id) = "processing"]_vars

\* processNextTask has just returned without starting the pending task,
\* another task's processor being awaited
C30_Witness ==
    /\ call.op = "processNextTask"
    /\ call.logged = 0
    /\ inFlight # {}
    /\ getPendingTasks(tasks) # <<>>


====
